---- MODULE Spec2Model ----
(***************************************************************************)
(* Shift-pay computation of work_pay_log (src/src/main.rs).                *)
(*                                                                         *)
(* Strings are sequences of one-character strings.  Clock times are        *)
(* records [hour, minute]; Option<T> is the value None or a record with    *)
(* tag "Some".  The f64 values (hours, rate, pay) are exact rationals in   *)
(* lowest terms and rates are whole currency units, so no operation is     *)
(* rounded.                                                                *)
(***************************************************************************)
EXTENDS Integers, Sequences, FiniteSets, TLC

VARIABLES
    text,              \* parse_hhmm: the argument s
    parsed,            \* parse_hhmm: the returned Option<NaiveTime>
    ppc,               \* parse_hhmm call: "call" before, "ret" after
    start,             \* calculate_pay_summary: argument start
    end,               \* calculate_pay_summary: argument end
    base_rate,         \* calculate_pay_summary: argument base_rate
    pc,                \* calculate_pay_summary: position in the body
    start_min,
    end_min,
    total_duration,
    regular_minutes,
    overtime_minutes,
    cursor,
    remaining_lunch,
    iterations,        \* number of completed passes of the while loop
    exit_line,         \* source line of the return that ended the call, 0 before
    result,            \* the returned Option<PaySummary>
    month_first,       \* App: first day of the month shown, as [year, month]
    selected_date,     \* App: Option<NaiveDate>, a date is [year, month, day]
    global_rate,       \* App
    entries,           \* App: date -> list of WorkEntry; no key = empty list
    show_popup,        \* App
    temp_start,        \* App
    temp_end,          \* App
    popup_error        \* App: Option<String>

vars == <<text, parsed, ppc, start, end, base_rate, pc, start_min, end_min,
          total_duration, regular_minutes, overtime_minutes, cursor,
          remaining_lunch, iterations, exit_line, result,
          month_first, selected_date, global_rate, entries, show_popup,
          temp_start, temp_end, popup_error>>

----------------------------------------------------------------------------
(* Bounds of the model *)

MaxLen == 5        \* longest string handed to parse_hhmm on its own
MaxRate == 3       \* largest hourly rate handed to calculate_pay_summary
MaxEntries == 2    \* most entries the store holds, over all dates

----------------------------------------------------------------------------
(* Program constants *)

MINUTES_PER_DAY == 24 * 60
OVERTIME_START_MIN == 15 * 60 + 30
LUNCH_BREAK_MIN == 30

None == [tag |-> "None"]
Some(v) == [tag |-> "Some", val |-> v]

Min(a, b) == IF a <= b THEN a ELSE b
Max(a, b) == IF a >= b THEN a ELSE b

----------------------------------------------------------------------------
(* Time parser *)

DigitChars == <<"0", "1", "2", "3", "4", "5", "6", "7", "8", "9">>

IsDigit(c) == \E i \in 1..10 : DigitChars[i] = c

DigitVal(c) == (CHOOSE i \in 1..10 : DigitChars[i] = c) - 1

\* value of a non-empty run of decimal digits, most significant first
RECURSIVE DigitsValue(_)
DigitsValue(ds) ==
    IF Len(ds) = 0 THEN 0
    ELSE 10 * DigitsValue(SubSeq(ds, 1, Len(ds) - 1)) + DigitVal(ds[Len(ds)])

\* str::split_once(':'): the parts before and after the FIRST colon
split_once(s) ==
    IF \A i \in 1..Len(s) : s[i] # ":" THEN None
    ELSE LET k == CHOOSE i \in 1..Len(s) :
                      s[i] = ":" /\ \A j \in 1..(i - 1) : s[j] # ":"
         IN  Some(<<SubSeq(s, 1, k - 1), SubSeq(s, k + 1, Len(s))>>)

\* str::parse::<u32>(): one optional leading '+', then one or more ASCII
\* digits; anything else (empty, a lone sign, '-', a letter, a colon) is Err.
\* A value above u32::MAX is Err as well; it needs ten digits or more, and
\* would fail from_hms_opt anyway.
parse_u32(s) ==
    LET body == IF Len(s) > 0 /\ s[1] = "+" THEN SubSeq(s, 2, Len(s)) ELSE s
    IN  IF Len(body) > 0 /\ \A i \in 1..Len(body) : IsDigit(body[i])
        THEN Some(DigitsValue(body))
        ELSE None

\* NaiveTime::from_hms_opt(hh, mm, 0)
from_hms_opt_lax(hh, mm) ==
    IF hh <= 24 /\ mm <= 60 THEN Some([hour |-> hh, minute |-> mm]) ELSE None

from_hms_opt(hh, mm) ==
    IF hh < 24 /\ mm < 60 THEN Some([hour |-> hh, minute |-> mm]) ELSE None

parse_hhmm(s) ==
    LET parts == split_once(s) IN
    IF parts = None THEN None
    ELSE LET hh == parse_u32(parts.val[1])
             mm == parse_u32(parts.val[2])
         IN  IF hh = None \/ mm = None THEN None
             ELSE from_hms_opt(hh.val, mm.val)

\* NaiveTime::num_seconds_from_midnight() / 60
minutes_from_midnight(t) == (t.hour * 3600 + t.minute * 60) \div 60

----------------------------------------------------------------------------
(* Exact rational arithmetic standing for the f64 operations *)

\* A rational is kept in lowest terms with a positive denominator.
RECURSIVE Gcd(_, _)
Gcd(a, b) == IF b = 0 THEN a ELSE Gcd(b, a % b)

Abs(a) == IF a < 0 THEN 0 - a ELSE a

Rat(n, d) ==
    LET g == Gcd(Abs(n), d) IN [num |-> n \div g, den |-> d \div g]
RatMul(a, b) == Rat(a.num * b.num, a.den * b.den)
RatAdd(a, b) == Rat(a.num * b.den + b.num * a.den, a.den * b.den)
RatEq(a, b) == a.num * b.den = b.num * a.den
RatLt(a, b) == a.num * b.den < b.num * a.den

----------------------------------------------------------------------------
(* calculate_pay_summary, piece by piece *)

\* lines 473-474: both strings parsed, `?` returns None on the first failure
ParseBoth_enddefault(st, en) ==
    LET s == parse_hhmm(st)
        e == parse_hhmm(en)
    IN  IF s = None THEN [ok |-> FALSE, line |-> 473]
        ELSE IF e = None THEN [ok |-> TRUE, s |-> s.val, e |-> [hour |-> 0, minute |-> 0]]
        ELSE [ok |-> TRUE, s |-> s.val, e |-> e.val]

ParseBoth(st, en) ==
    LET s == parse_hhmm(st)
        e == parse_hhmm(en)
    IN  IF s = None THEN [ok |-> FALSE, line |-> 473]
        ELSE IF e = None THEN [ok |-> FALSE, line |-> 474]
        ELSE [ok |-> TRUE, s |-> s.val, e |-> e.val]

\* lines 477-480: the end rolled into the next day when not after the start
NormalizeEnd_strict(s_min, e_min) ==
    IF e_min < s_min THEN e_min + MINUTES_PER_DAY ELSE e_min

NormalizeEnd(s_min, e_min) ==
    IF e_min <= s_min THEN e_min + MINUTES_PER_DAY ELSE e_min

\* lines 491-502: one pass of the while loop
SegmentStep_firstday(cur, e_min, reg, ot) ==
    IF cur < OVERTIME_START_MIN
    THEN LET segment_end == Min(e_min, OVERTIME_START_MIN)
         IN  [cursor |-> segment_end,
              regular_minutes |-> reg + (segment_end - cur),
              overtime_minutes |-> ot]
    ELSE [cursor |-> e_min,
          regular_minutes |-> reg,
          overtime_minutes |-> ot + (e_min - cur)]

SegmentStep_threshold15(cur, e_min, reg, ot) ==
    LET day_start == (cur \div MINUTES_PER_DAY) * MINUTES_PER_DAY
        day_overtime_start == day_start + 15 * 60
    IN  IF cur < day_overtime_start
        THEN LET segment_end == Min(e_min, day_overtime_start)
             IN  [cursor |-> segment_end,
                  regular_minutes |-> reg + (segment_end - cur),
                  overtime_minutes |-> ot]
        ELSE LET day_end == day_start + MINUTES_PER_DAY
                 segment_end == Min(e_min, day_end)
             IN  [cursor |-> segment_end,
                  regular_minutes |-> reg,
                  overtime_minutes |-> ot + (segment_end - cur)]

SegmentStep_nomin(cur, e_min, reg, ot) ==
    LET day_start == (cur \div MINUTES_PER_DAY) * MINUTES_PER_DAY
        day_overtime_start == day_start + OVERTIME_START_MIN
    IN  IF cur < day_overtime_start
        THEN LET segment_end == day_overtime_start
             IN  [cursor |-> segment_end,
                  regular_minutes |-> reg + (segment_end - cur),
                  overtime_minutes |-> ot]
        ELSE LET day_end == day_start + MINUTES_PER_DAY
                 segment_end == Min(e_min, day_end)
             IN  [cursor |-> segment_end,
                  regular_minutes |-> reg,
                  overtime_minutes |-> ot + (segment_end - cur)]

SegmentStep(cur, e_min, reg, ot) ==
    LET day_start == (cur \div MINUTES_PER_DAY) * MINUTES_PER_DAY
        day_overtime_start == day_start + OVERTIME_START_MIN
    IN  IF cur < day_overtime_start
        THEN LET segment_end == Min(e_min, day_overtime_start)
             IN  [cursor |-> segment_end,
                  regular_minutes |-> reg + (segment_end - cur),
                  overtime_minutes |-> ot]
        ELSE LET day_end == day_start + MINUTES_PER_DAY
                 segment_end == Min(e_min, day_end)
             IN  [cursor |-> segment_end,
                  regular_minutes |-> reg,
                  overtime_minutes |-> ot + (segment_end - cur)]

\* lines 490-503: the whole while loop
RECURSIVE SegmentLoop(_, _, _, _)
SegmentLoop(cur, e_min, reg, ot) ==
    IF cur < e_min
    THEN LET n == SegmentStep(cur, e_min, reg, ot)
         IN  SegmentLoop(n.cursor, e_min, n.regular_minutes, n.overtime_minutes)
    ELSE [cursor |-> cur, regular_minutes |-> reg, overtime_minutes |-> ot]

\* lines 505-515: the lunch break taken from regular, then from overtime
LunchDeduct_overtimefirst(reg, ot, dur) ==
    LET lunch == Min(LUNCH_BREAK_MIN, dur)
        rem == IF ot >= lunch THEN 0 ELSE lunch - ot
        ot1 == IF ot >= lunch THEN ot - lunch ELSE 0
    IN  [regular_minutes |-> IF rem > 0 THEN Max(reg - rem, 0) ELSE reg,
         overtime_minutes |-> ot1,
         remaining_lunch |-> rem]

LunchDeduct_skipped(reg, ot, dur) ==
    [regular_minutes |-> reg, overtime_minutes |-> ot, remaining_lunch |-> 0]

LunchDeduct(reg, ot, dur) ==
    LET lunch == Min(LUNCH_BREAK_MIN, dur)
        rem == IF reg >= lunch THEN 0 ELSE lunch - reg
        reg1 == IF reg >= lunch THEN reg - lunch ELSE 0
    IN  [regular_minutes |-> reg1,
         overtime_minutes |-> IF rem > 0 THEN Max(ot - rem, 0) ELSE ot,
         remaining_lunch |-> rem]

\* lines 522-530: hours and pay from the minutes left after lunch
MakeSummary_flatovertime(reg, ot, rate) ==
    LET regular_hours == Rat(reg, 60)
        overtime_hours == Rat(ot, 60)
    IN  [regular_hours |-> regular_hours,
         overtime_hours |-> overtime_hours,
         total_pay |-> RatAdd(RatMul(regular_hours, Rat(rate, 1)),
                              RatMul(overtime_hours, Rat(rate, 1)))]

MakeSummary_overtimeonly(reg, ot, rate) ==
    LET regular_hours == Rat(reg, 60)
        overtime_hours == Rat(ot, 60)
    IN  [regular_hours |-> regular_hours,
         overtime_hours |-> overtime_hours,
         total_pay |-> RatMul(RatMul(overtime_hours, Rat(rate, 1)), Rat(3, 2))]

MakeSummary(reg, ot, rate) ==
    LET regular_hours == Rat(reg, 60)
        overtime_hours == Rat(ot, 60)
    IN  [regular_hours |-> regular_hours,
         overtime_hours |-> overtime_hours,
         total_pay |-> RatAdd(RatMul(regular_hours, Rat(rate, 1)),
                              RatMul(RatMul(overtime_hours, Rat(rate, 1)),
                                     Rat(3, 2)))]

\* lines 468-531 as one function of the arguments
calculate_pay_summary(st, en, rate) ==
    LET p == ParseBoth(st, en) IN
    IF ~p.ok THEN None
    ELSE LET s_min == minutes_from_midnight(p.s)
             e_min == NormalizeEnd(s_min, minutes_from_midnight(p.e))
             dur == e_min - s_min
         IN  IF dur <= 0 THEN None
             ELSE LET seg == SegmentLoop(s_min, e_min, 0, 0)
                      l == LunchDeduct(seg.regular_minutes,
                                       seg.overtime_minutes, dur)
                  IN  IF l.regular_minutes + l.overtime_minutes <= 0 THEN None
                      ELSE Some(MakeSummary(l.regular_minutes,
                                            l.overtime_minutes, rate))

----------------------------------------------------------------------------
(* Inputs *)

Alphabet == {"0", "2", "4", "5", "6", ":", "+", "a"}

Strings(n) == UNION {[1..k -> Alphabet] : k \in 0..n}

\* state of the calculate_pay_summary call while parse_hhmm is studied alone
PayIdle ==
    /\ start = <<>> /\ end = <<>> /\ base_rate = 0
    /\ pc = "idle"
    /\ start_min = 0 /\ end_min = 0 /\ total_duration = 0
    /\ regular_minutes = 0 /\ overtime_minutes = 0
    /\ cursor = 0 /\ remaining_lunch = 0 /\ iterations = 0
    /\ exit_line = 0 /\ result = None

payVars == <<start, end, base_rate, pc, start_min, end_min, total_duration,
             regular_minutes, overtime_minutes, cursor, remaining_lunch,
             iterations, exit_line, result>>

parseVars == <<text, parsed, ppc>>

appVars == <<month_first, selected_date, global_rate, entries, show_popup,
             temp_start, temp_end, popup_error>>

\* the calendar window the model may show; the program starts on the month
\* of the current day
MonthWindow ==
    { [year |-> 2025, month |-> 11],
      [year |-> 2025, month |-> 12],
      [year |-> 2026, month |-> 1] }

Days == {1}

AllDates ==
    {[year |-> mf.year, month |-> mf.month, day |-> d] : mf \in MonthWindow, d \in Days}

\* App::default() (lines 25-43) when load_csv finds no file
AppDefault ==
    /\ month_first = [year |-> 2025, month |-> 12]
    /\ selected_date = None
    /\ global_rate = 30
    /\ entries = [d \in AllDates |-> <<>>]
    /\ show_popup = FALSE
    /\ temp_start = <<>>
    /\ temp_end = <<>>
    /\ popup_error = None

----------------------------------------------------------------------------
(* Specification of parse_hhmm alone *)

InitParse ==
    /\ text \in Strings(MaxLen)
    /\ parsed = None
    /\ ppc = "call"
    /\ PayIdle
    /\ AppDefault

CallParse ==
    /\ ppc = "call"
    /\ parsed' = parse_hhmm(text)
    /\ ppc' = "ret"
    /\ UNCHANGED <<text, payVars, appVars>>

NextParse == CallParse

SpecParse == InitParse /\ [][NextParse]_vars

----------------------------------------------------------------------------
(* Specification of one call of calculate_pay_summary, statement by        *)
(* statement                                                               *)

Hours == {0, 1, 9, 14, 15, 16, 17, 23}
Minutes == {0, 15, 29, 30, 31, 59}

FormatHHMM(h, m) ==
    <<DigitChars[(h \div 10) + 1], DigitChars[(h % 10) + 1], ":",
      DigitChars[(m \div 10) + 1], DigitChars[(m % 10) + 1]>>

Malformed ==
    { <<"9", "a", "m">>,
      <<>>,
      <<"1", "2", ":", "3", "0", ":", "4", "5">>,
      <<"2", "4", ":", "0", "0">>,
      <<"1", "2", ":", "6", "0">>,
      <<"-", "1", ":", "0", "0">> }

TimeInputs == {FormatHHMM(h, m) : h \in Hours, m \in Minutes} \cup Malformed

ParseIdle == text = <<>> /\ parsed = None /\ ppc = "idle"

InitPay ==
    /\ start \in TimeInputs
    /\ end \in TimeInputs
    /\ base_rate \in 0..MaxRate
    /\ pc = "call"
    /\ start_min = 0 /\ end_min = 0 /\ total_duration = 0
    /\ regular_minutes = 0 /\ overtime_minutes = 0
    /\ cursor = 0 /\ remaining_lunch = 0 /\ iterations = 0
    /\ exit_line = 0 /\ result = None
    /\ ParseIdle
    /\ AppDefault

\* lines 473-488
Normalize ==
    /\ pc = "call"
    /\ LET p == ParseBoth(start, end) IN
       IF ~p.ok
       THEN /\ pc' = "done" /\ exit_line' = p.line /\ result' = None
            /\ UNCHANGED <<start_min, end_min, total_duration, cursor>>
       ELSE LET s_min == minutes_from_midnight(p.s)
                e_min == NormalizeEnd(s_min, minutes_from_midnight(p.e))
            IN  /\ start_min' = s_min
                /\ end_min' = e_min
                /\ total_duration' = e_min - s_min
                /\ IF e_min - s_min <= 0
                   THEN /\ pc' = "done" /\ exit_line' = 483 /\ result' = None
                        /\ UNCHANGED cursor
                   ELSE /\ pc' = "loop" /\ cursor' = s_min
                        /\ UNCHANGED <<exit_line, result>>
    /\ UNCHANGED <<start, end, base_rate, regular_minutes, overtime_minutes,
                   remaining_lunch, iterations, parseVars, appVars>>

\* lines 490-503, one pass
LoopStep ==
    /\ pc = "loop"
    /\ cursor < end_min
    /\ LET n == SegmentStep(cursor, end_min, regular_minutes, overtime_minutes)
       IN  /\ cursor' = n.cursor
           /\ regular_minutes' = n.regular_minutes
           /\ overtime_minutes' = n.overtime_minutes
    /\ iterations' = iterations + 1
    /\ UNCHANGED <<start, end, base_rate, pc, start_min, end_min,
                   total_duration, remaining_lunch, exit_line, result,
                   parseVars, appVars>>

\* line 490 false, then lines 505-515
Lunch ==
    /\ pc = "loop"
    /\ ~(cursor < end_min)
    /\ LET l == LunchDeduct(regular_minutes, overtime_minutes, total_duration)
       IN  /\ regular_minutes' = l.regular_minutes
           /\ overtime_minutes' = l.overtime_minutes
           /\ remaining_lunch' = l.remaining_lunch
    /\ pc' = "worked"
    /\ UNCHANGED <<start, end, base_rate, start_min, end_min, total_duration,
                   cursor, iterations, exit_line, result, parseVars, appVars>>

\* lines 517-530
Finish ==
    /\ pc = "worked"
    /\ IF regular_minutes + overtime_minutes <= 0
       THEN exit_line' = 519 /\ result' = None
       ELSE /\ exit_line' = 526
            /\ result' = Some(MakeSummary(regular_minutes, overtime_minutes,
                                          base_rate))
    /\ pc' = "done"
    /\ UNCHANGED <<start, end, base_rate, start_min, end_min, total_duration,
                   regular_minutes, overtime_minutes, cursor, remaining_lunch,
                   iterations, parseVars, appVars>>

NextPay == Normalize \/ LoopStep \/ Lunch \/ Finish

SpecPay == InitPay /\ [][NextPay]_vars

\* the statement-by-statement call returns what the function returns
StepsAgreeWithFunction ==
    pc = "done" => result = calculate_pay_summary(start, end, base_rate)

----------------------------------------------------------------------------
(* Vocabulary of the properties *)

ValidTime(str) == parse_hhmm(str) # None
Mins(str) == minutes_from_midnight(parse_hhmm(str).val)
BothValid == ValidTime(start) /\ ValidTime(end)
Returned == pc = "done"
Succeeded == pc = "done" /\ result # None

\* the duration of the shift after the end is rolled past midnight
NormalizedDuration ==
    IF Mins(end) > Mins(start)
    THEN Mins(end) - Mins(start)
    ELSE Mins(end) - Mins(start) + 1440

T2300 == <<"2", "3", ":", "0", "0">>
T0100 == <<"0", "1", ":", "0", "0">>
T1400 == <<"1", "4", ":", "0", "0">>
T1700 == <<"1", "7", ":", "0", "0">>
T0900 == <<"0", "9", ":", "0", "0">>
T0915 == <<"0", "9", ":", "1", "5">>
T0930 == <<"0", "9", ":", "3", "0">>
T9am == <<"9", "a", "m">>

----------------------------------------------------------------------------
(* C1 *)

\* C1 as stated: the shift 23:00-01:00 lasts 120 minutes and pays 90
\* minutes, all of them regular (regular_hours 1.5, overtime_hours 0).
C1_AllRegular ==
    (Returned /\ start = T2300 /\ end = T0100) =>
        /\ total_duration = 120
        /\ result # None
        /\ regular_minutes = 90
        /\ overtime_minutes = 0
        /\ RatEq(result.val.regular_hours, Rat(3, 2))
        /\ RatEq(result.val.overtime_hours, Rat(0, 1))

\* C1 amended: the shift 23:00-01:00 lasts 120 minutes and pays 90 minutes,
\* the hour before midnight as overtime (it lies after that day's 15:30) and
\* the hour after midnight, less the 30 minutes of lunch, as regular:
\* regular_minutes = 30 (0.5 h), overtime_minutes = 60 (1 h).
C1_MidnightCrossing ==
    (Returned /\ start = T2300 /\ end = T0100) =>
        /\ total_duration = 120
        /\ result # None
        /\ regular_minutes + overtime_minutes = 90
        /\ regular_minutes = 30
        /\ overtime_minutes = 60
        /\ RatEq(result.val.regular_hours, Rat(1, 2))
        /\ RatEq(result.val.overtime_hours, Rat(1, 1))

C1_Witness ==
    Succeeded /\ start = T2300 /\ end = T0100 /\ iterations = 2

----------------------------------------------------------------------------
(* C2 *)

\* C2: a same-day shift that ends by 15:30 and lasts more than 30 minutes
\* succeeds with no overtime and (end - start) - 30 regular minutes, that is
\* regular_hours = (end - start)/60 - 1/2.
C2_BeforeThreshold ==
    (Returned /\ BothValid) =>
        LET d == Mins(end) - Mins(start) IN
        (Mins(start) < Mins(end) /\ Mins(end) <= 930 /\ d > 30) =>
            /\ result # None
            /\ overtime_minutes = 0
            /\ regular_minutes = d - 30
            /\ RatEq(result.val.overtime_hours, Rat(0, 1))
            /\ RatEq(result.val.regular_hours,
                     RatAdd(Rat(d, 60), Rat(-1, 2)))

C2_Witness ==
    /\ Succeeded /\ BothValid
    /\ Mins(start) < Mins(end) /\ Mins(end) = 930
    /\ Mins(end) - Mins(start) > 30

----------------------------------------------------------------------------
(* C3 *)

\* C3: a same-day shift that starts at least 30 minutes before 15:30 and
\* ends after it has (930 - start) - 30 regular and end - 930 overtime
\* minutes; 14:00-17:00 has 60 regular and 90 overtime minutes and pays
\* 1.0*rate + 1.5*rate*1.5.
C3_Straddling ==
    (Returned /\ BothValid) =>
        /\ (Mins(start) < 930 /\ 930 < Mins(end) /\ 930 - Mins(start) >= 30) =>
              /\ result # None
              /\ regular_minutes = (930 - Mins(start)) - 30
              /\ overtime_minutes = Mins(end) - 930
        /\ (start = T1400 /\ end = T1700) =>
              /\ result # None
              /\ regular_minutes = 60
              /\ overtime_minutes = 90
              /\ RatEq(result.val.total_pay,
                       RatAdd(RatMul(Rat(1, 1), Rat(base_rate, 1)),
                              RatMul(RatMul(Rat(3, 2), Rat(base_rate, 1)),
                                     Rat(3, 2))))

C3_Witness ==
    Succeeded /\ start = T1400 /\ end = T1700 /\ base_rate > 0

----------------------------------------------------------------------------
(* C4 *)

\* C4: for valid times a summary is produced exactly when minutes remain
\* after lunch, which is exactly when the normalized duration exceeds 30;
\* 09:00-09:15 and 09:00-09:30 produce none; a produced summary has
\* non-negative regular and overtime minutes with a positive sum.
C4_WorkableTime ==
    (Returned /\ BothValid) =>
        /\ (result # None) <=> (regular_minutes + overtime_minutes > 0)
        /\ (result # None) <=> (NormalizedDuration > 30)
        /\ (start = T0900 /\ end \in {T0915, T0930}) => result = None
        /\ (result # None) =>
              /\ regular_minutes >= 0
              /\ overtime_minutes >= 0
              /\ regular_minutes + overtime_minutes > 0

C4_Witness ==
    Returned /\ start = T0900 /\ end = T0930 /\ result = None /\ exit_line = 519

----------------------------------------------------------------------------
(* C6 *)

Failure(kind) == [tag |-> "Failure", kind |-> kind]

----------------------------------------------------------------------------
(* C7 *)

\* C7: for valid times the normalized interval has end > start and a
\* duration in 1..1440; the end is rolled forward by 1440 exactly when it
\* is not after the start; the duration is 1440 exactly when start = end;
\* the return for a duration <= 0 is never taken.
C7_Normalizer ==
    (pc # "call" /\ BothValid) =>
        /\ end_min > start_min
        /\ start_min = Mins(start)
        /\ total_duration \in 1..1440
        /\ (end_min = Mins(end) + 1440) <=> (Mins(end) <= Mins(start))
        /\ (end_min = Mins(end)) <=> (Mins(end) > Mins(start))
        /\ (total_duration = 1440) <=> (Mins(start) = Mins(end))
        /\ exit_line # 483

C7_Witness ==
    /\ pc = "loop" /\ BothValid
    /\ Mins(start) = Mins(end) /\ total_duration = 1440

----------------------------------------------------------------------------
(* C8 *)

\* C8: the lunch deduction removes L = min(30, total_duration) minutes,
\* from regular first: regular becomes max(0, R - L), overtime becomes
\* O - max(0, L - R), neither is negative, overtime shrinks only when
\* R < L, and the two sum to total_duration - L.
C8_LunchStep ==
    (pc = "loop" /\ pc' = "worked") =>
        LET R == regular_minutes
            O == overtime_minutes
            L == Min(30, total_duration)
        IN  /\ regular_minutes' = Max(0, R - L)
            /\ overtime_minutes' = O - Max(0, L - R)
            /\ regular_minutes' >= 0
            /\ overtime_minutes' >= 0
            /\ (overtime_minutes' # O) => (R < L)
            /\ regular_minutes' + overtime_minutes' = total_duration - L

C8_LunchDeduction == [][C8_LunchStep]_vars

C8_Witness ==
    /\ pc = "worked"
    /\ remaining_lunch > 0
    /\ regular_minutes = 0
    /\ overtime_minutes > 0

----------------------------------------------------------------------------
(* C9 *)

\* C9: a produced summary has regular_hours = regular_minutes/60,
\* overtime_hours = overtime_minutes/60 of the minutes left after lunch and
\* total_pay = regular_hours*rate + overtime_hours*rate*1.5, that is
\* 120*total_pay = rate*(2*regular_minutes + 3*overtime_minutes); total_pay
\* is never negative and is 0 at rate 0.
C9_PayFormula ==
    Succeeded =>
        LET sm == result.val
            rate == Rat(base_rate, 1)
        IN  /\ RatEq(sm.regular_hours, Rat(regular_minutes, 60))
            /\ RatEq(sm.overtime_hours, Rat(overtime_minutes, 60))
            /\ RatEq(sm.total_pay,
                     RatAdd(RatMul(sm.regular_hours, rate),
                            RatMul(RatMul(sm.overtime_hours, rate), Rat(3, 2))))
            /\ RatEq(RatMul(Rat(120, 1), sm.total_pay),
                     Rat(base_rate * (2 * regular_minutes + 3 * overtime_minutes), 1))
            /\ ~RatLt(sm.total_pay, Rat(0, 1))
            /\ (base_rate = 0) => RatEq(sm.total_pay, Rat(0, 1))

C9_Witness ==
    Succeeded /\ base_rate > 0 /\ regular_minutes > 0 /\ overtime_minutes > 0

----------------------------------------------------------------------------
(* C10 *)

----------------------------------------------------------------------------
(* C5 *)

FirstColon(s, k) ==
    k \in 1..Len(s) /\ s[k] = ":" /\ \A j \in 1..(k - 1) : s[j] # ":"

\* positions lo..hi of s hold one or more decimal digits
DigitRun(s, lo, hi) == lo <= hi /\ \A i \in lo..hi : IsDigit(s[i])

RECURSIVE Pow10(_)
Pow10(n) == IF n = 0 THEN 1 ELSE 10 * Pow10(n - 1)

RECURSIVE PlaceSum(_, _, _)
PlaceSum(s, lo, hi) ==
    IF lo > hi THEN 0
    ELSE DigitVal(s[lo]) * Pow10(hi - lo) + PlaceSum(s, lo + 1, hi)

\* s is <digits>:<digits> around its first colon, hour < 24, minute < 60
DigitsHHMM(s) ==
    \E k \in 1..Len(s) :
        /\ FirstColon(s, k)
        /\ DigitRun(s, 1, k - 1)
        /\ DigitRun(s, k + 1, Len(s))
        /\ PlaceSum(s, 1, k - 1) < 24
        /\ PlaceSum(s, k + 1, Len(s)) < 60

\* the same with one optional '+' in front of either run of digits
SignedHHMM(s) ==
    \E k \in 1..Len(s) :
        /\ FirstColon(s, k)
        /\ \E h0 \in {1, 2}, m0 \in {k + 1, k + 2} :
              /\ h0 = 2 => s[1] = "+"
              /\ m0 = k + 2 => (k + 1 <= Len(s) /\ s[k + 1] = "+")
              /\ DigitRun(s, h0, k - 1)
              /\ DigitRun(s, m0, Len(s))
              /\ PlaceSum(s, h0, k - 1) < 24
              /\ PlaceSum(s, m0, Len(s)) < 60

HourOf(s) ==
    LET k == CHOOSE i \in 1..Len(s) : FirstColon(s, i)
    IN  PlaceSum(s, IF s[1] = "+" THEN 2 ELSE 1, k - 1)

MinuteOf(s) ==
    LET k == CHOOSE i \in 1..Len(s) : FirstColon(s, i)
    IN  PlaceSum(s, IF s[k + 1] = "+" THEN k + 2 ELSE k + 1, Len(s))

\* C5 as stated: parse_hhmm accepts exactly the strings <digits>:<digits>
\* (split at the first colon) with hour < 24 and minute < 60, and returns
\* that hour and minute.
C5_DigitsOnly ==
    (ppc = "ret") =>
        /\ (parsed # None) <=> DigitsHHMM(text)
        /\ (parsed # None) =>
              /\ parsed.val.hour \in 0..23
              /\ parsed.val.minute \in 0..59

\* C5 amended: parse_hhmm splits at the first colon and accepts exactly the
\* strings whose two parts are each one or more decimal digits, optionally
\* preceded by a single '+', with hour < 24 and minute < 60; it returns that
\* hour in 0..23 and minute in 0..59 and fails on every other string.
C5_ParseHHMM ==
    (ppc = "ret") =>
        /\ (parsed # None) <=> SignedHHMM(text)
        /\ DigitsHHMM(text) => parsed # None
        /\ (parsed # None) =>
              /\ parsed.val.hour \in 0..23
              /\ parsed.val.minute \in 0..59
              /\ parsed.val.hour = HourOf(text)
              /\ parsed.val.minute = MinuteOf(text)

C5_Witness ==
    /\ ppc = "ret"
    /\ text = <<"+", "2", ":", "+", "5">>
    /\ parsed = Some([hour |-> 2, minute |-> 5])

----------------------------------------------------------------------------
(* C12 *)

RegularMinutesIn(lo, hi) ==
    Cardinality({t \in lo..(hi - 1) : t % 1440 < 930})

OvertimeMinutesIn(lo, hi) ==
    Cardinality({t \in lo..(hi - 1) : t % 1440 >= 930})

\* C12: the loop classifies every minute t of [start, end) by its minute of
\* day: the raw regular minutes are the t with t mod 1440 < 930, the raw
\* overtime minutes the t with t mod 1440 >= 930, and together they are
\* end - start.  The same holds of [start, cursor) after every pass.
C12_MinuteClassification ==
    (pc = "loop" /\ BothValid) =>
        /\ regular_minutes = RegularMinutesIn(start_min, cursor)
        /\ overtime_minutes = OvertimeMinutesIn(start_min, cursor)
        /\ ~(cursor < end_min) =>
              /\ regular_minutes = RegularMinutesIn(start_min, end_min)
              /\ overtime_minutes = OvertimeMinutesIn(start_min, end_min)
              /\ regular_minutes + overtime_minutes = end_min - start_min

C12_Witness ==
    /\ pc = "loop" /\ BothValid
    /\ ~(cursor < end_min)
    /\ iterations = 3
    /\ regular_minutes > 0 /\ overtime_minutes > 0

----------------------------------------------------------------------------
(* C13 *)

C13_Step ==
    /\ (pc = "loop") => (cursor <= end_min /\ iterations <= 3)
    /\ (pc = "loop" /\ pc' = "loop") =>
          /\ cursor' > cursor
          /\ cursor' <= end_min
          /\ iterations' = iterations + 1
          /\ iterations' <= 3
    /\ (pc = "loop" /\ pc' # "loop") =>
          (cursor = end_min /\ cursor' = end_min /\ pc' = "worked")
    /\ (pc = "loop" /\ iterations = 3) => cursor = end_min

\* C13: for valid times the walk terminates: every pass strictly increases
\* cursor, cursor never exceeds end, the loop is left with cursor = end,
\* after at most 3 passes (after the third pass cursor = end, so no fourth
\* pass is taken).
C13_Termination == [][C13_Step]_vars

C13_Witness ==
    pc = "worked" /\ BothValid /\ cursor = end_min /\ iterations = 3

----------------------------------------------------------------------------
(* The application: App::update and the calendar, one action per widget    *)

\* what the two text fields of the popup may hold
AppInputs == {<<>>, T0900, T0915, T9am}

\* the DragValue is clamped to 0..=1_000_000 and starts at 30
AppRates == {0, 30}

WorkEntry(st, en) == [start |-> st, end |-> en]

RECURSIVE SumLen(_, _)
SumLen(f, ds) ==
    IF ds = {} THEN 0
    ELSE LET d == CHOOSE x \in ds : TRUE
         IN  Len(f[d]) + SumLen(f, ds \ {d})

TotalEntries(ents) == SumLen(ents, DOMAIN ents)

\* Vec::remove(i), i counted from 1 here
RemoveAt(list, i) == SubSeq(list, 1, i - 1) \o SubSeq(list, i + 1, Len(list))

\* lines 99-117: what the Save Entry button does to the list of the date,
\* the two text fields and popup_error
SaveOutcome_pushfirst(list, ts, te, rate, err) ==
    IF calculate_pay_summary(ts, te, rate) # None
    THEN [list |-> Append(list, WorkEntry(ts, te)),
          temp_start |-> <<>>, temp_end |-> <<>>, popup_error |-> None]
    ELSE [list |-> Append(list, WorkEntry(ts, te)),
          temp_start |-> ts, temp_end |-> te,
          popup_error |-> Some("Check time format (HH:MM) and duration.")]

SaveOutcome(list, ts, te, rate, err) ==
    IF calculate_pay_summary(ts, te, rate) # None
    THEN [list |-> Append(list, WorkEntry(ts, te)),
          temp_start |-> <<>>, temp_end |-> <<>>, popup_error |-> None]
    ELSE [list |-> list,
          temp_start |-> ts, temp_end |-> te,
          popup_error |-> Some("Check time format (HH:MM) and duration.")]

\* lines 377-385: the entries compute_totals adds up, as (date, index)
SummedEntries(ents, rate) ==
    {p \in {<<d, i>> : d \in DOMAIN ents, i \in 1..MaxEntries + 1} :
        /\ p[2] <= Len(ents[p[1]])
        /\ \E e \in {ents[p[1]][p[2]]} :
              calculate_pay_summary(e.start, e.end, rate) # None}

\* lines 404-421: the entries save_csv writes a row for, as (date, index)
WrittenRows(ents, rate) ==
    {p \in {<<d, i>> : d \in DOMAIN ents, i \in 1..MaxEntries + 1} :
        /\ p[2] <= Len(ents[p[1]])
        /\ \E e \in {ents[p[1]][p[2]]} :
              calculate_pay_summary(e.start, e.end, rate) # None}

InitApp ==
    /\ AppDefault
    /\ PayIdle
    /\ ParseIdle

\* lines 57-60
SetGlobalRate ==
    /\ \E r \in AppRates : global_rate' = r
    /\ UNCHANGED <<month_first, selected_date, entries, show_popup,
                   temp_start, temp_end, popup_error, payVars, parseVars>>

\* lines 173-176
PrevMonth ==
    /\ LET y == month_first.year
           m == month_first.month
           n == IF m = 1 THEN [year |-> y - 1, month |-> 12]
                         ELSE [year |-> y, month |-> m - 1]
       IN  n \in MonthWindow /\ month_first' = n
    /\ UNCHANGED <<selected_date, global_rate, entries, show_popup,
                   temp_start, temp_end, popup_error, payVars, parseVars>>

\* lines 182-185
NextMonth ==
    /\ LET y == month_first.year
           m == month_first.month
           n == IF m = 12 THEN [year |-> y + 1, month |-> 1]
                          ELSE [year |-> y, month |-> m + 1]
       IN  n \in MonthWindow /\ month_first' = n
    /\ UNCHANGED <<selected_date, global_rate, entries, show_popup,
                   temp_start, temp_end, popup_error, payVars, parseVars>>

\* lines 296-299 and 347-350: a day of the month shown is clicked
ClickDay ==
    /\ \E day \in Days :
          selected_date' = Some([year |-> month_first.year,
                                 month |-> month_first.month,
                                 day |-> day])
    /\ show_popup' = TRUE
    /\ UNCHANGED <<month_first, global_rate, entries, temp_start, temp_end,
                   popup_error, payVars, parseVars>>

PopupOpen == show_popup /\ selected_date # None

\* line 87
EditStart ==
    /\ PopupOpen
    /\ \E str \in AppInputs : temp_start' = str
    /\ UNCHANGED <<month_first, selected_date, global_rate, entries,
                   show_popup, temp_end, popup_error, payVars, parseVars>>

\* line 89
EditEnd ==
    /\ PopupOpen
    /\ \E str \in AppInputs : temp_end' = str
    /\ UNCHANGED <<month_first, selected_date, global_rate, entries,
                   show_popup, temp_start, popup_error, payVars, parseVars>>

\* lines 98-118
SaveEntry ==
    /\ PopupOpen
    /\ LET date == selected_date.val
           o == SaveOutcome(entries[date], temp_start, temp_end, global_rate,
                            popup_error)
       IN  /\ Len(o.list) > Len(entries[date]) => TotalEntries(entries) < MaxEntries
           /\ entries' = [entries EXCEPT ![date] = o.list]
           /\ temp_start' = o.temp_start
           /\ temp_end' = o.temp_end
           /\ popup_error' = o.popup_error
    /\ UNCHANGED <<month_first, selected_date, global_rate, show_popup,
                   payVars, parseVars>>

\* lines 119-122
ClosePopup ==
    /\ PopupOpen
    /\ show_popup' = FALSE
    /\ popup_error' = None
    /\ UNCHANGED <<month_first, selected_date, global_rate, entries,
                   temp_start, temp_end, payVars, parseVars>>

\* lines 147-154
RemoveEntry ==
    /\ PopupOpen
    /\ LET date == selected_date.val
       IN  \E i \in 1..Len(entries[date]) :
              entries' = [entries EXCEPT ![date] = RemoveAt(@, i)]
    /\ UNCHANGED <<month_first, selected_date, global_rate, show_popup,
                   temp_start, temp_end, popup_error, payVars, parseVars>>

NextApp ==
    \/ SetGlobalRate \/ PrevMonth \/ NextMonth \/ ClickDay
    \/ EditStart \/ EditEnd \/ SaveEntry \/ ClosePopup \/ RemoveEntry

SpecApp == InitApp /\ [][NextApp]_vars

----------------------------------------------------------------------------
(* C14 *)

Positions(ents) ==
    {p \in {<<d, i>> : d \in DOMAIN ents, i \in 1..MaxEntries + 1} :
        p[2] <= Len(ents[p[1]])}

\* every entry of the store ents has a summary at the rate, so that
\* compute_totals and save_csv skip none
StoreSucceeds(ents, rate) ==
    /\ \A p \in Positions(ents) :
          \E e \in {ents[p[1]][p[2]]} :
              calculate_pay_summary(e.start, e.end, rate) # None
    /\ SummedEntries(ents, rate) = Positions(ents)
    /\ WrittenRows(ents, rate) = Positions(ents)

AllStoredSucceed == StoreSucceeds(entries, global_rate)

\* The store is empty at the start and AllStoredSucceed reads entries and
\* global_rate only, so it holds in every reachable state when every step
\* that changes one of the two ends in a state where it holds.
C14_Step ==
    /\ (entries' # entries \/ global_rate' # global_rate) =>
          \E ents \in {entries'}, rate \in {global_rate'} :
              StoreSucceeds(ents, rate)
    /\ SaveEntry =>
          \E date \in {selected_date.val}, ents \in {entries'} :
          IF calculate_pay_summary(temp_start, temp_end, global_rate) # None
          THEN /\ ents[date] =
                      entries[date] \o <<[start |-> temp_start, end |-> temp_end]>>
               /\ \A d \in DOMAIN entries : d # date => ents[d] = entries[d]
               /\ TotalEntries(ents) = TotalEntries(entries) + 1
          ELSE /\ ents = entries
               /\ popup_error' # None

\* C14: from an empty store, after any sequence of Save Entry attempts,
\* deletions, date selections, month changes and rate changes, every stored
\* entry is one for which calculate_pay_summary succeeds at the current rate
\* (none is skipped by compute_totals or save_csv); Save Entry appends
\* exactly one entry to the selected date only when the computation
\* succeeds, and a failed Save Entry leaves the store unchanged and sets
\* popup_error.
C14_StoreValid == [][C14_Step]_vars

C14_Witness ==
    /\ TotalEntries(entries) = MaxEntries
    /\ global_rate = 0
    /\ popup_error # None
    /\ temp_start = T0900 /\ temp_end = T0915

====
